---------------------------- MODULE Spec2Model ----------------------------
(***************************************************************************)
(* The HTTP client pool of src/pool.go: a cache of *http.Client keyed by   *)
(* timeout, guarded by one sync.RWMutex per pool, with double-checked      *)
(* creation in GetClient and a full clear in SetTransport and              *)
(* SetDefaultTLSConfig.                                                    *)
(*                                                                         *)
(* Pointers are heap addresses (Nil is 0), so that identity of clients and *)
(* transports is equality of addresses.  Every method is split at the      *)
(* statements of the source; a program counter names the line a goroutine  *)
(* is about to execute.                                                    *)
(***************************************************************************)
EXTENDS Integers, Sequences, FiniteSets, TLC

\* ------------------------------------------------------------- bounds
\* Number of pools that may exist (DefaultClientPool included).
MaxPools == 2
\* Number of method calls (GetClient, SetTransport, SetDefaultTLSConfig)
\* that may be started in one behaviour.
MaxCalls == 4
\* The same, in the behaviours that use more pools than DefaultClientPool.
MaxPoolsCalls == 2
\* The same, in the behaviours checked for termination.
MaxFairCalls == 3

\* The goroutines calling into the package.
Procs == {"g1", "g2"}
\* The timeouts requested: a negative one, zero, and the 10ns of the example.
Timeouts == {-1, 0, 10}

\* ------------------------------------------------------------- values
Nil == 0

\* An object of the heap.  Field that a type does not have is Nil.
Object(type, Transport, Timeout, TLSClientConfig) ==
    [type |-> type, Transport |-> Transport, Timeout |-> Timeout,
     TLSClientConfig |-> TLSClientConfig]

\* The objects the callers own before any call: two custom RoundTrippers
\* and a tls.Config, to be handed to SetTransport and SetDefaultTLSConfig.
CallerHeap ==
    << Object("RoundTripper", Nil, 0, Nil), Object("RoundTripper", Nil, 0, Nil),
       Object("tls.Config", Nil, 0, Nil) >>

CustomTransports == {a \in 1..Len(CallerHeap) : CallerHeap[a].type = "RoundTripper"}
TLSConfigs == {a \in 1..Len(CallerHeap) : CallerHeap[a].type = "tls.Config"}

\* make(map[time.Duration]*http.Client)
EmptyMap == [t \in {} |-> Nil]

\* The address of DefaultClientPool.
DefaultClientPool == 1

VARIABLES
    pools,    \* pools[p]: the pool struct at address p
    heap,     \* heap[a]: the object at address a
    pc,       \* pc[g]: the line goroutine g is about to execute, or "idle"
    frame,    \* frame[g]: receiver, arguments and locals of g's current call
    c1,       \* c1[g]: what g's latest GetClient call returned, and for what
    ncalls,   \* calls started so far
    cleared,  \* cleared[p]: clients that were in p.clients when it was replaced
    built     \* built[p]: clients constructed for p since p.clients was replaced

vars == <<pools, heap, pc, frame, c1, ncalls, cleared, built>>

\* ------------------------------------------------------------- helpers
\* p.clients[timeout]: the entry, or nil when the key is absent.
Lookup(clients, timeout) ==
    IF timeout \in DOMAIN clients THEN clients[timeout] ELSE Nil

\* A Store that does not save the client.
Store_Forget(clients, timeout, client) == clients

\* A Store that replaces the map by one holding the new entry alone.
Store_Replace(clients, timeout, client) == [t \in {timeout} |-> client]

\* p.clients[timeout] = client
Store(clients, timeout, client) ==
    [t \in (DOMAIN clients) \cup {timeout} |->
        IF t = timeout THEN client ELSE clients[t]]

\* &pool{clients: make(...)}: transport and tlsConfig are nil, mtx is unlocked.
NewPool ==
    [mtx |-> [readers |-> 0, writer |-> FALSE],
     transport |-> Nil, tlsConfig |-> Nil, clients |-> EmptyMap]

\* A default transport that leaves the pool's TLS configuration out.
NewTransport_NoTLS(tlsConfig) == Object("http.Transport", Nil, 0, Nil)

\* &http.Transport{Proxy: ..., TLSClientConfig: p.tlsConfig, Dial: ..., ...}
NewTransport(tlsConfig) == Object("http.Transport", Nil, 0, tlsConfig)

\* A client that is given no transport.
NewClient_NoTransport(transport, timeout) == Object("http.Client", Nil, timeout, Nil)

\* &http.Client{Transport: transport, Timeout: timeout}
NewClient(transport, timeout) == Object("http.Client", transport, timeout, Nil)

\* sync.RWMutex: RLock succeeds when no writer holds the lock, Lock when
\* nobody holds it.
CanRLock(mtx) == ~mtx.writer
CanLock(mtx) == ~mtx.writer /\ mtx.readers = 0

IdleFrame ==
    [fn |-> "", p |-> Nil, timeout |-> 0, transport |-> Nil, tlsConfig |-> Nil,
     client |-> Nil, old |-> {}]

NoResult == [p |-> Nil, timeout |-> 0, client |-> Nil]

Init ==
    /\ pools = << NewPool >>
    /\ heap = CallerHeap
    /\ pc = [g \in Procs |-> "idle"]
    /\ frame = [g \in Procs |-> IdleFrame]
    /\ c1 = [g \in Procs |-> NoResult]
    /\ ncalls = 0
    /\ cleared = << {} >>
    /\ built = << {} >>


\* ------------------------------------------------------------- the lock
\* A read lock that is taken as the write lock.
RLock_Exclusive(p) == [pools EXCEPT ![p].mtx.writer = TRUE]

RLock(p) == [pools EXCEPT ![p].mtx.readers = @ + 1]
RUnlock(p) == [pools EXCEPT ![p].mtx.readers = @ - 1]
Lock(p) == [pools EXCEPT ![p].mtx.writer = TRUE]
Unlock(p) == [pools EXCEPT ![p].mtx.writer = FALSE]

\* The values of a map.
Values(clients) == {clients[t] : t \in DOMAIN clients}

\* A goroutine moves to another line and keeps its frame, or changes it.
Goto(self, line) == pc' = [pc EXCEPT ![self] = line]
Return(self) ==
    /\ pc' = [pc EXCEPT ![self] = "idle"]
    /\ frame' = [frame EXCEPT ![self] = IdleFrame]

\* ------------------------------------------------------------- NewClientPool
\* func NewClientPool() ClientPool
NewClientPool(self) ==
    /\ pc[self] = "idle"
    /\ Len(pools) < MaxPools
    /\ pools' = Append(pools, NewPool)
    /\ cleared' = Append(cleared, {})
    /\ built' = Append(built, {})
    /\ UNCHANGED <<heap, pc, frame, c1, ncalls>>

\* ------------------------------------------------------------- SetTransport
CallSetTransport(self, p, transport) ==
    /\ pc[self] = "idle"
    /\ ncalls < MaxCalls
    /\ ncalls' = ncalls + 1
    /\ frame' = [frame EXCEPT ![self] =
                    [IdleFrame EXCEPT !.fn = "SetTransport", !.p = p,
                                      !.transport = transport]]
    /\ Goto(self, "L44")
    /\ UNCHANGED <<pools, heap, c1, cleared, built>>

\* A SetTransport that does not wait for the lock.
SetTransport_L44_nowait(self) ==
    /\ pc[self] = "L44"
    /\ pools' = Lock(frame[self].p)
    /\ Goto(self, "L46")
    /\ UNCHANGED <<heap, frame, c1, cleared, built, ncalls>>

\* p.mtx.Lock()
SetTransport_L44(self) ==
    /\ pc[self] = "L44"
    /\ CanLock(pools[frame[self].p].mtx)
    /\ pools' = Lock(frame[self].p)
    /\ Goto(self, "L46")
    /\ UNCHANGED <<heap, frame, c1, cleared, built, ncalls>>

\* A SetTransport that also resets the TLS configuration.
SetTransport_L46_reset(self) ==
    /\ pc[self] = "L46"
    /\ pools' = [pools EXCEPT ![frame[self].p].transport = frame[self].transport,
                              ![frame[self].p].tlsConfig = Nil]
    /\ Goto(self, "L50")
    /\ UNCHANGED <<heap, frame, c1, cleared, built, ncalls>>

\* p.transport = transport
SetTransport_L46(self) ==
    /\ pc[self] = "L46"
    /\ pools' = [pools EXCEPT ![frame[self].p].transport = frame[self].transport]
    /\ Goto(self, "L50")
    /\ UNCHANGED <<heap, frame, c1, cleared, built, ncalls>>

\* A SetTransport that keeps the cached clients.
SetTransport_L50_keep(p) == pools

\* A SetTransport that empties the cache of every pool.
SetTransport_L50_all(p) ==
    [q \in DOMAIN pools |-> [pools[q] EXCEPT !.clients = EmptyMap]]

\* p.clients = make(map[time.Duration]*http.Client)
SetTransport_L50_pools(p) == [pools EXCEPT ![p].clients = EmptyMap]

SetTransport_L50(self) ==
    /\ pc[self] = "L50"
    /\ pools' = SetTransport_L50_pools(frame[self].p)
    /\ cleared' = [cleared EXCEPT ![frame[self].p] =
                      @ \cup Values(pools[frame[self].p].clients)]
    /\ built' = [built EXCEPT ![frame[self].p] = {}]
    /\ Goto(self, "L52")
    /\ UNCHANGED <<heap, frame, c1, ncalls>>

\* p.mtx.Unlock(), and the call returns
SetTransport_L52(self) ==
    /\ pc[self] = "L52"
    /\ pools' = Unlock(frame[self].p)
    /\ Return(self)
    /\ UNCHANGED <<heap, c1, cleared, built, ncalls>>

\* ------------------------------------------------------------- SetDefaultTLSConfig
CallSetDefaultTLSConfig(self, p, tlsConfig) ==
    /\ pc[self] = "idle"
    /\ ncalls < MaxCalls
    /\ ncalls' = ncalls + 1
    /\ frame' = [frame EXCEPT ![self] =
                    [IdleFrame EXCEPT !.fn = "SetDefaultTLSConfig", !.p = p,
                                      !.tlsConfig = tlsConfig]]
    /\ Goto(self, "L59")
    /\ UNCHANGED <<pools, heap, c1, cleared, built>>

\* A SetDefaultTLSConfig that does not wait for the lock.
SetDefaultTLSConfig_L59_nowait(self) ==
    /\ pc[self] = "L59"
    /\ pools' = Lock(frame[self].p)
    /\ Goto(self, "L61")
    /\ UNCHANGED <<heap, frame, c1, cleared, built, ncalls>>

\* p.mtx.Lock()
SetDefaultTLSConfig_L59(self) ==
    /\ pc[self] = "L59"
    /\ CanLock(pools[frame[self].p].mtx)
    /\ pools' = Lock(frame[self].p)
    /\ Goto(self, "L61")
    /\ UNCHANGED <<heap, frame, c1, cleared, built, ncalls>>

\* p.tlsConfig = tlsConfig
SetDefaultTLSConfig_L61(self) ==
    /\ pc[self] = "L61"
    /\ pools' = [pools EXCEPT ![frame[self].p].tlsConfig = frame[self].tlsConfig]
    /\ Goto(self, "L65")
    /\ UNCHANGED <<heap, frame, c1, cleared, built, ncalls>>

\* A SetDefaultTLSConfig that keeps the cached clients.
SetDefaultTLSConfig_L65_keep(p) == pools

\* A SetDefaultTLSConfig that keeps the cached clients of a pool with a
\* custom transport, which the TLS configuration does not reach.
SetDefaultTLSConfig_L65_default(p) ==
    IF pools[p].transport = Nil
    THEN [pools EXCEPT ![p].clients = EmptyMap]
    ELSE pools

\* p.clients = make(map[time.Duration]*http.Client)
SetDefaultTLSConfig_L65_pools(p) == [pools EXCEPT ![p].clients = EmptyMap]

SetDefaultTLSConfig_L65(self) ==
    /\ pc[self] = "L65"
    /\ pools' = SetDefaultTLSConfig_L65_pools(frame[self].p)
    /\ cleared' = [cleared EXCEPT ![frame[self].p] =
                      @ \cup Values(pools[frame[self].p].clients)]
    /\ built' = [built EXCEPT ![frame[self].p] = {}]
    /\ Goto(self, "L67")
    /\ UNCHANGED <<heap, frame, c1, ncalls>>

\* p.mtx.Unlock(), and the call returns
SetDefaultTLSConfig_L67(self) ==
    /\ pc[self] = "L67"
    /\ pools' = Unlock(frame[self].p)
    /\ Return(self)
    /\ UNCHANGED <<heap, c1, cleared, built, ncalls>>

\* ------------------------------------------------------------- GetClient
\* The call records in old the clients that the receiver's p.clients had
\* lost to a Set* call before this call started.
CallGetClient(self, p, timeout) ==
    /\ pc[self] = "idle"
    /\ ncalls < MaxCalls
    /\ ncalls' = ncalls + 1
    /\ frame' = [frame EXCEPT ![self] =
                    [IdleFrame EXCEPT !.fn = "GetClient", !.p = p,
                                      !.timeout = timeout, !.old = cleared[p]]]
    /\ Goto(self, "L74")
    /\ UNCHANGED <<pools, heap, c1, cleared, built>>

\* p.mtx.RLock()
GetClient_L74(self) ==
    /\ pc[self] = "L74"
    /\ CanRLock(pools[frame[self].p].mtx)
    /\ pools' = RLock(frame[self].p)
    /\ Goto(self, "L76")
    /\ UNCHANGED <<heap, frame, c1, cleared, built, ncalls>>

\* if client := p.clients[timeout]; client != nil
GetClient_L76(self) ==
    /\ pc[self] = "L76"
    /\ LET client == Lookup(pools[frame[self].p].clients, frame[self].timeout) IN
        /\ frame' = [frame EXCEPT ![self].client = client]
        /\ Goto(self, IF client # Nil THEN "L77" ELSE "L81")
    /\ UNCHANGED <<pools, heap, c1, cleared, built, ncalls>>

\* A fast path that returns with the read lock held.
GetClient_L77_held(p) == pools

\* p.mtx.RUnlock(), on the path that found the client
GetClient_L77_pools(p) == RUnlock(p)

GetClient_L77(self) ==
    /\ pc[self] = "L77"
    /\ pools' = GetClient_L77_pools(frame[self].p)
    /\ Goto(self, "L78")
    /\ UNCHANGED <<heap, frame, c1, cleared, built, ncalls>>

\* The caller keeps what the call returned.
Result(self) ==
    [p |-> frame[self].p, timeout |-> frame[self].timeout,
     client |-> frame[self].client]

\* return client
GetClient_L78(self) ==
    /\ pc[self] = "L78"
    /\ c1' = [c1 EXCEPT ![self] = Result(self)]
    /\ Return(self)
    /\ UNCHANGED <<pools, heap, cleared, built, ncalls>>

\* p.mtx.RUnlock(), on the path that found nothing; var client *http.Client
GetClient_L81(self) ==
    /\ pc[self] = "L81"
    /\ pools' = RUnlock(frame[self].p)
    /\ frame' = [frame EXCEPT ![self].client = Nil]
    /\ Goto(self, "L86")
    /\ UNCHANGED <<heap, c1, cleared, built, ncalls>>

\* A slow path that takes the read lock where it needs the write lock.
GetClient_L86_rlock(self) ==
    /\ pc[self] = "L86"
    /\ CanRLock(pools[frame[self].p].mtx)
    /\ pools' = RLock(frame[self].p)
    /\ Goto(self, "L89")
    /\ UNCHANGED <<heap, frame, c1, cleared, built, ncalls>>

\* p.mtx.Lock()
GetClient_L86(self) ==
    /\ pc[self] = "L86"
    /\ CanLock(pools[frame[self].p].mtx)
    /\ pools' = Lock(frame[self].p)
    /\ Goto(self, "L89")
    /\ UNCHANGED <<heap, frame, c1, cleared, built, ncalls>>

\* A slow path that creates without looking again.
GetClient_L89_always(client) == TRUE

\* The second check: is a client to be created?
GetClient_L89_create(client) == client = Nil

\* if client = p.clients[timeout]; client == nil
GetClient_L89(self) ==
    /\ pc[self] = "L89"
    /\ LET client == Lookup(pools[frame[self].p].clients, frame[self].timeout) IN
        /\ frame' = [frame EXCEPT ![self].client = client]
        /\ Goto(self, IF GetClient_L89_create(client) THEN "L90" ELSE "L118")
    /\ UNCHANGED <<pools, heap, c1, cleared, built, ncalls>>

\* A slow path that never uses the pool's transport.
GetClient_L90_nil(p) == Nil

\* transport := p.transport
GetClient_L90_transport(p) == pools[p].transport

\* transport := p.transport; if transport == nil
GetClient_L90(self) ==
    /\ pc[self] = "L90"
    /\ LET transport == GetClient_L90_transport(frame[self].p) IN
        /\ frame' = [frame EXCEPT ![self].transport = transport]
        /\ Goto(self, IF transport = Nil THEN "L96" ELSE "L109")
    /\ UNCHANGED <<pools, heap, c1, cleared, built, ncalls>>

\* A slow path that shares the default transport of a cached client
\* instead of building one.
GetClient_L96_shared(self) ==
    /\ pc[self] = "L96"
    /\ LET cached == {heap[a].Transport : a \in Values(pools[frame[self].p].clients)} IN
        IF cached # {}
        THEN /\ heap' = heap
             /\ frame' = [frame EXCEPT ![self].transport = CHOOSE x \in cached : TRUE]
        ELSE /\ heap' = Append(heap, NewTransport(pools[frame[self].p].tlsConfig))
             /\ frame' = [frame EXCEPT ![self].transport = Len(heap) + 1]
    /\ Goto(self, "L109")
    /\ UNCHANGED <<pools, c1, cleared, built, ncalls>>

\* transport = &http.Transport{..., TLSClientConfig: p.tlsConfig, ...}
GetClient_L96(self) ==
    /\ pc[self] = "L96"
    /\ heap' = Append(heap, NewTransport(pools[frame[self].p].tlsConfig))
    /\ frame' = [frame EXCEPT ![self].transport = Len(heap) + 1]
    /\ Goto(self, "L109")
    /\ UNCHANGED <<pools, c1, cleared, built, ncalls>>

\* client = &http.Client{Transport: transport, Timeout: timeout}
GetClient_L109(self) ==
    /\ pc[self] = "L109"
    /\ heap' = Append(heap, NewClient(frame[self].transport, frame[self].timeout))
    /\ frame' = [frame EXCEPT ![self].client = Len(heap) + 1]
    /\ built' = [built EXCEPT ![frame[self].p] = @ \cup {Len(heap) + 1}]
    /\ Goto(self, "L115")
    /\ UNCHANGED <<pools, c1, cleared, ncalls>>

\* p.clients[timeout] = client
GetClient_L115(self) ==
    /\ pc[self] = "L115"
    /\ pools' = [pools EXCEPT ![frame[self].p].clients =
                    Store(@, frame[self].timeout, frame[self].client)]
    /\ Goto(self, "L118")
    /\ UNCHANGED <<heap, frame, c1, cleared, built, ncalls>>

\* p.mtx.Unlock()
GetClient_L118(self) ==
    /\ pc[self] = "L118"
    /\ pools' = Unlock(frame[self].p)
    /\ Goto(self, "L120")
    /\ UNCHANGED <<heap, frame, c1, cleared, built, ncalls>>

\* return client
GetClient_L120(self) ==
    /\ pc[self] = "L120"
    /\ c1' = [c1 EXCEPT ![self] = Result(self)]
    /\ Return(self)
    /\ UNCHANGED <<pools, heap, cleared, built, ncalls>>

\* ------------------------------------------------------------- the system
Pools == 1..Len(pools)

Call(self) ==
    \E p \in Pools :
        \/ \E transport \in CustomTransports \cup {Nil} :
               CallSetTransport(self, p, transport)
        \/ \E tlsConfig \in TLSConfigs \cup {Nil} :
               CallSetDefaultTLSConfig(self, p, tlsConfig)
        \/ \E timeout \in Timeouts : CallGetClient(self, p, timeout)

SetTransport(self) ==
    \/ SetTransport_L44(self)
    \/ SetTransport_L46(self)
    \/ SetTransport_L50(self)
    \/ SetTransport_L52(self)

SetDefaultTLSConfig(self) ==
    \/ SetDefaultTLSConfig_L59(self)
    \/ SetDefaultTLSConfig_L61(self)
    \/ SetDefaultTLSConfig_L65(self)
    \/ SetDefaultTLSConfig_L67(self)

GetClient(self) ==
    \/ GetClient_L74(self)
    \/ GetClient_L76(self)
    \/ GetClient_L77(self)
    \/ GetClient_L78(self)
    \/ GetClient_L81(self)
    \/ GetClient_L86(self)
    \/ GetClient_L89(self)
    \/ GetClient_L90(self)
    \/ GetClient_L96(self)
    \/ GetClient_L109(self)
    \/ GetClient_L115(self)
    \/ GetClient_L118(self)
    \/ GetClient_L120(self)

Step(self) == SetTransport(self) \/ SetDefaultTLSConfig(self) \/ GetClient(self)

\* The goroutines use DefaultClientPool only.
Next ==
    \E self \in Procs :
        \/ Call(self)
        \/ Step(self)

Spec == Init /\ [][Next]_vars

\* Every goroutine that can take its next step takes it: the scheduler
\* runs every runnable goroutine, and a goroutine blocked on the lock is
\* runnable once the lock is free.
Fairness == \A self \in Procs : WF_vars(Step(self))

FairNext ==
    \E self \in Procs :
        \/ (ncalls < MaxFairCalls /\ Call(self))
        \/ Step(self)

FairSpec == Init /\ [][FairNext]_vars /\ Fairness

\* The goroutines also make pools of their own with NewClientPool.
PoolsNext ==
    \E self \in Procs :
        \/ NewClientPool(self)
        \/ (ncalls < MaxPoolsCalls /\ Call(self))
        \/ Step(self)

PoolsSpec == Init /\ [][PoolsNext]_vars

\* ------------------------------------------------------------- the claims
\* A goroutine about to return from GetClient.
Returning(self) == pc[self] \in {"L78", "L120"}

\* c1[self] is the result of an earlier GetClient call of self on the pool
\* and for the timeout of its current call.
SameAsBefore(self) ==
    /\ c1[self].client # Nil
    /\ c1[self].p = frame[self].p
    /\ c1[self].timeout = frame[self].timeout

\* A client is in cleared[p] from the moment a Set* call replaces the map
\* that held it: an instance outside cleared[p] has seen no Set* call
\* since it was looked up or created.
Uncleared(p, client) == client # Nil /\ client \notin cleared[p]

\* C1: a goroutine that calls GetClient(t) again on the same pool, with no
\* SetTransport or SetDefaultTLSConfig having replaced the cache since its
\* earlier call found or made its client, is returned the identical client,
\* whose Timeout is t.
C1_SameClientAgain ==
    \A self \in Procs :
        (Returning(self) /\ SameAsBefore(self)
            /\ Uncleared(frame[self].p, c1[self].client))
        => /\ frame[self].client = c1[self].client
           /\ heap[frame[self].client].Timeout = frame[self].timeout

C1_Witness ==
    \E self \in Procs :
        /\ Returning(self) /\ SameAsBefore(self)
        /\ Uncleared(frame[self].p, c1[self].client)
        /\ frame[self].client = c1[self].client
        /\ frame[self].timeout = 10

\* What GetClient calls have returned or are about to return to self.
Results(self) ==
    {r \in {c1[self]} : r.client # Nil}
        \cup (IF Returning(self) THEN {Result(self)} ELSE {})

\* A goroutine in the write-locked part of GetClient whose second check
\* found an entry: it holds a client and has read no transport.
FoundOnRecheck(self) ==
    pc[self] = "L118" /\ frame[self].client # Nil /\ frame[self].transport = Nil

\* C2: GetClient calls for the same timeout on the same pool, by any
\* goroutines and in any interleaving, return the same instance as long as
\* no Set* call has replaced the cache under them; between two
\* replacements at most one client is constructed per timeout; and a call
\* whose second check, under the write lock, finds an entry takes that
\* entry and neither allocates nor writes to the pool.
C2_OneClientPerTimeout ==
    /\ [](\A g, h \in Procs : \A r \in Results(g), s \in Results(h) :
            (r.p = s.p /\ r.timeout = s.timeout
                /\ Uncleared(r.p, r.client) /\ Uncleared(s.p, s.client))
            => r.client = s.client)
    /\ [](\A p \in DOMAIN pools : \A a, b \in built[p] :
            heap[a].Timeout = heap[b].Timeout => a = b)
    /\ [][\A self \in Procs :
            (GetClient_L89(self)
                /\ Lookup(pools[frame[self].p].clients, frame[self].timeout) # Nil)
            => /\ pc'[self] = "L118"
               /\ frame'[self].client =
                    Lookup(pools[frame[self].p].clients, frame[self].timeout)
               /\ heap' = heap
               /\ pools' = pools]_vars

\* Two goroutines missed under the read lock; one made the client, the
\* other finds it on its second check.
C2_Witness ==
    \E g, h \in Procs :
        /\ g # h
        /\ FoundOnRecheck(g)
        /\ Returning(h)
        /\ frame[g].p = frame[h].p
        /\ frame[g].timeout = frame[h].timeout
        /\ frame[g].client = frame[h].client
        /\ frame[h].transport # Nil

\* C3: a GetClient(t) call that starts after a Set* call has replaced the
\* cache returns an instance different from every client that was cached
\* for t before the replacement, the caller's own earlier result included.
C3_NewClientAfterSet ==
    \A self \in Procs :
        Returning(self)
        => /\ \A a \in frame[self].old :
                heap[a].Timeout = frame[self].timeout => frame[self].client # a
           /\ (SameAsBefore(self) /\ c1[self].client \in frame[self].old)
                => frame[self].client # c1[self].client

C3_Witness ==
    \E self \in Procs :
        /\ Returning(self) /\ SameAsBefore(self)
        /\ c1[self].client \in frame[self].old
        /\ frame[self].client # c1[self].client
        /\ frame[self].client # Nil

\* The client is bound to the settings of pool p: to p.transport when a
\* transport is set, else to a default transport carrying p.tlsConfig.
BoundTo(p, client) ==
    IF pools[p].transport # Nil
    THEN heap[client].Transport = pools[p].transport
    ELSE /\ heap[client].Transport # Nil
         /\ heap[heap[client].Transport].type = "http.Transport"
         /\ heap[heap[client].Transport].TLSClientConfig = pools[p].tlsConfig

\* C4: whenever nobody holds the write lock of a pool, every client in its
\* clients map is bound to the pool's current transport, or, when that is
\* nil, to a default transport built with the pool's current tlsConfig.
C4_CacheBoundToSettings ==
    \A p \in DOMAIN pools :
        ~pools[p].mtx.writer
        => \A t \in DOMAIN pools[p].clients : BoundTo(p, pools[p].clients[t])

\* A client is cached again after the settings were changed under a
\* non-empty cache.
C4_Witness ==
    \E p \in DOMAIN pools :
        /\ ~pools[p].mtx.writer
        /\ cleared[p] # {}
        /\ pools[p].clients # EmptyMap
        /\ \A t \in DOMAIN pools[p].clients : BoundTo(p, pools[p].clients[t])
        /\ \E a \in cleared[p] : ~BoundTo(p, a)

\* C5: in one pool the entries of distinct timeouts (negative and zero
\* included) are distinct instances, each with its key as Timeout; calls
\* for distinct timeouts return distinct instances; and storing the entry
\* of one timeout leaves the entries of the others as they were.
C5_DistinctTimeouts ==
    /\ [](\A p \in DOMAIN pools : \A t1, t2 \in DOMAIN pools[p].clients :
            /\ heap[pools[p].clients[t1]].Timeout = t1
            /\ t1 # t2 => pools[p].clients[t1] # pools[p].clients[t2])
    /\ [](\A g, h \in Procs : \A r \in Results(g), s \in Results(h) :
            (r.p = s.p /\ r.timeout # s.timeout)
            => /\ r.client # s.client
               /\ heap[r.client].Timeout = r.timeout
               /\ heap[s.client].Timeout = s.timeout)
    /\ [][\A self \in Procs :
            GetClient_L115(self)
            => \A t \in DOMAIN pools[frame[self].p].clients :
                  t # frame[self].timeout
                  => /\ t \in DOMAIN pools'[frame[self].p].clients
                     /\ pools'[frame[self].p].clients[t]
                            = pools[frame[self].p].clients[t]]_vars

C5_Witness ==
    \E p \in DOMAIN pools :
        /\ {-1, 0} \subseteq DOMAIN pools[p].clients
        /\ pools[p].clients[-1] # pools[p].clients[0]
        /\ \E self \in Procs :
             /\ Returning(self)
             /\ Result(self) = [p |-> p, timeout |-> 0, client |-> pools[p].clients[0]]
             /\ c1[self] = [p |-> p, timeout |-> -1, client |-> pools[p].clients[-1]]

\* A SetTransport call on p has assigned p.transport and not yet replaced
\* p.clients.
MidSetTransport(p) == \E g \in Procs : pc[g] = "L50" /\ frame[g].p = p

Creating(self) ==
    \/ pc[self] \in {"L109", "L115"}
    \/ pc[self] = "L118" /\ frame[self].transport # Nil

\* The clients of the heap other than client.
OtherClients(client) ==
    {a \in 1..Len(heap) : a # client /\ heap[a].type = "http.Client"}

\* C7: on a pool whose transport is nil, a GetClient call that finds no
\* entry builds a default transport of its own, carrying the pool's
\* current tlsConfig, and the client it stores and returns uses that
\* transport: no custom transport set earlier, and no transport of another
\* client.
C7_DefaultTransportBuilt ==
    \A self \in Procs :
        /\ (Creating(self) /\ pools[frame[self].p].transport = Nil)
           => /\ frame[self].transport \notin CustomTransports
              /\ heap[frame[self].transport].type = "http.Transport"
              /\ heap[frame[self].transport].TLSClientConfig
                    = pools[frame[self].p].tlsConfig
              /\ \A a \in OtherClients(frame[self].client) :
                    heap[a].Transport # frame[self].transport
              /\ pc[self] # "L109"
                 => heap[frame[self].client].Transport = frame[self].transport
        /\ (pc[self] = "L120" /\ frame[self].transport # Nil
                /\ frame[self].transport \notin CustomTransports)
           => /\ heap[frame[self].transport].type = "http.Transport"
              /\ heap[frame[self].client].Transport = frame[self].transport

\* SetTransport(T), GetClient, SetTransport(nil), GetClient: the second
\* client is being stored with a default transport.
C7_Witness ==
    \E self \in Procs :
        LET p == frame[self].p IN
        /\ pc[self] = "L118" /\ frame[self].transport # Nil
        /\ pools[p].transport = Nil
        /\ \E a \in cleared[p] : heap[a].Transport \in CustomTransports
        /\ heap[heap[frame[self].client].Transport].type = "http.Transport"

\* C8: a GetClient call never holds, and so never returns, a client that a
\* Set* call had removed from the cache before the GetClient call started,
\* whatever other GetClient and Set* calls run beside it; and no removed
\* client is ever in the cache again.
C8_SetVisibleToLaterCalls ==
    /\ \A self \in Procs :
          (frame[self].fn = "GetClient" /\ frame[self].client # Nil)
          => frame[self].client \notin frame[self].old
    /\ \A p \in DOMAIN pools : Values(pools[p].clients) \cap cleared[p] = {}

\* A call that started after a replacement returns while another Set* call
\* is replacing the cache again.
C8_Witness ==
    \E self, g \in Procs :
        /\ Returning(self)
        /\ frame[self].old # {}
        /\ frame[self].client \notin frame[self].old
        /\ pc[g] \in {"L52", "L67"}
        /\ frame[g].p = frame[self].p
        /\ frame[self].client \in cleared[frame[self].p]

\* The goroutines inside the read-locked and the write-locked parts.
Readers(p) ==
    {g \in Procs : frame[g].p = p /\ pc[g] \in {"L76", "L77", "L81"}}
Writers(p) ==
    {g \in Procs : frame[g].p = p
        /\ pc[g] \in {"L46", "L50", "L52", "L61", "L65", "L67",
                      "L89", "L90", "L96", "L109", "L115", "L118"}}

\* C9: every call returns, given that runnable goroutines are run; the
\* lock is held exactly by the goroutines inside the locked parts (so every
\* path has released what it acquired when it returns, and no goroutine
\* asks for the write lock while it holds the read lock); as long as a call
\* is in progress some goroutine can step; and GetClient returns a non-nil
\* client.
C9_CallsReturn ==
    /\ \A self \in Procs : (pc[self] # "idle") ~> (pc[self] = "idle")
    /\ [](\A p \in DOMAIN pools :
            /\ pools[p].mtx.readers = Cardinality(Readers(p))
            /\ pools[p].mtx.writer = (Writers(p) # {})
            /\ Cardinality(Writers(p)) <= 1)
    /\ []((\E g \in Procs : pc[g] # "idle") => \E h \in Procs : ENABLED Step(h))
    /\ [](\A self \in Procs : Returning(self) => frame[self].client # Nil)

\* One goroutine waits for the write lock while the other, on the fast
\* path, still holds the read lock.
C9_Witness ==
    \E g, h \in Procs :
        /\ pc[g] = "L77"
        /\ pc[h] \in {"L44", "L59", "L86"}
        /\ frame[g].p = frame[h].p
        /\ ~ENABLED Step(h)

\* C10: the steps of a call on one pool leave every other pool (its lock,
\* transport, tlsConfig and clients) as it was, starting a call or making
\* a pool changes no existing pool, and no client is cached in, or
\* returned from, two pools.
C10_PoolsIndependent ==
    /\ [][\A self \in Procs :
            Step(self)
            => \A q \in DOMAIN pools :
                  q # frame[self].p => pools'[q] = pools[q]]_vars
    /\ [][\A self \in Procs :
            (Call(self) \/ NewClientPool(self))
            => \A q \in DOMAIN pools : pools'[q] = pools[q]]_vars
    /\ [](\A p, q \in DOMAIN pools :
            p # q => Values(pools[p].clients) \cap Values(pools[q].clients) = {})
    /\ [](\A g, h \in Procs : \A r \in Results(g), s \in Results(h) :
            r.p # s.p => r.client # s.client)

\* A Set* call has replaced the cache of one pool while the other pool
\* keeps its cached client.
C10_Witness ==
    \E g \in Procs : \E q \in DOMAIN pools :
        /\ pc[g] \in {"L52", "L67"}
        /\ q # frame[g].p
        /\ pools[q].clients # EmptyMap
        /\ pools[frame[g].p].clients = EmptyMap

\* The settings and the cache of a pool: everything but its lock.
Settings(pool) ==
    [transport |-> pool.transport, tlsConfig |-> pool.tlsConfig,
     clients |-> pool.clients]

\* The steps of GetClient up to the return of the fast path.
FastPathStep(self) ==
    \/ GetClient_L74(self)
    \/ GetClient_L76(self)
    \/ GetClient_L77(self)
    \/ GetClient_L78(self)

\* C11: a GetClient call that finds its entry under the read lock changes
\* nothing of the pool but the reader count, which it restores: no step of
\* the fast path changes transport, tlsConfig or the clients map or takes
\* the write lock, the lookup that finds the entry leads to the read
\* unlock and to the return of that entry, and the call never reaches the
\* write-locked part.
C11_FastPathReadOnly ==
    /\ [][\A self \in Procs :
            FastPathStep(self)
            => /\ Settings(pools'[frame[self].p]) = Settings(pools[frame[self].p])
               /\ pools'[frame[self].p].mtx.writer = pools[frame[self].p].mtx.writer]_vars
    /\ [][\A self \in Procs :
            (GetClient_L76(self)
                /\ Lookup(pools[frame[self].p].clients, frame[self].timeout) # Nil)
            => /\ pc'[self] = "L77"
               /\ frame'[self].client =
                    Lookup(pools[frame[self].p].clients, frame[self].timeout)]_vars
    /\ [][\A self \in Procs :
            /\ pc[self] = "L77" => pc'[self] \in {"L77", "L78"}
            /\ pc[self] = "L78"
               => \/ pc'[self] = "L78"
                  \/ /\ pc'[self] = "idle"
                     /\ c1'[self].client = frame[self].client
                     /\ pools' = pools]_vars
    /\ [](\A self \in Procs :
            pc[self] = "L78" => self \notin Readers(frame[self].p))

\* Both goroutines have found the same entry and hold the read lock.
C11_Witness ==
    /\ \A g \in Procs : pc[g] = "L77"
    /\ \A g, h \in Procs : frame[g].p = frame[h].p /\ frame[g].client = frame[h].client
    /\ pools[DefaultClientPool].mtx.readers = Cardinality(Procs)

\* A Set* call replaces the clients map of p in this step.
Replaces(p) ==
    \E self \in Procs :
        /\ frame[self].p = p
        /\ SetTransport_L50(self) \/ SetDefaultTLSConfig_L65(self)

\* C12: in every step the clients map of a pool keeps each of its entries,
\* key and instance, unless the step is the replacement of the map by a
\* Set* call, which leaves the map empty.
C12_CacheOnlyGrows ==
    [][\A p \in DOMAIN pools :
          \/ \A t \in DOMAIN pools[p].clients :
                /\ t \in DOMAIN pools'[p].clients
                /\ pools'[p].clients[t] = pools[p].clients[t]
          \/ Replaces(p) /\ pools'[p].clients = EmptyMap]_vars

\* A second entry has been stored beside the first, after an earlier
\* replacement of a non-empty map.
C12_Witness ==
    \E self \in Procs :
        LET p == frame[self].p IN
        /\ pc[self] = "L118" /\ frame[self].transport # Nil
        /\ Cardinality(DOMAIN pools[p].clients) >= 2
        /\ cleared[p] # {}

\* C13: a Set* call leaves the cache empty, every client in the cache was
\* constructed after the latest replacement and is none of the clients
\* removed before, and a GetClient call whose second check finds no entry
\* allocates a client at a new address and stores it under its timeout: so
\* the first GetClient for any timeout after a Set* call constructs and
\* caches a fresh instance.
C13_FreshAfterSet ==
    /\ [](\A p \in DOMAIN pools :
            /\ Values(pools[p].clients) \subseteq built[p]
            /\ built[p] \cap cleared[p] = {})
    /\ [][\A p \in DOMAIN pools : Replaces(p) => pools'[p].clients = EmptyMap]_vars
    /\ [][\A self \in Procs :
            /\ (GetClient_L89(self)
                  /\ frame[self].timeout \notin DOMAIN pools[frame[self].p].clients)
               => pc'[self] = "L90"
            /\ GetClient_L109(self)
               => /\ frame'[self].client \notin 1..Len(heap)
                  /\ heap'[frame'[self].client].type = "http.Client"
            /\ GetClient_L115(self)
               => pools'[frame[self].p].clients[frame[self].timeout]
                     = frame[self].client]_vars

\* After a replacement of a non-empty map, a client has been constructed
\* and stored for a timeout that was not cached before.
C13_Witness ==
    \E self \in Procs :
        LET p == frame[self].p IN
        /\ pc[self] = "L118" /\ frame[self].transport # Nil
        /\ cleared[p] # {}
        /\ \A a \in cleared[p] : heap[a].Timeout # frame[self].timeout
        /\ pools[p].clients = [t \in {frame[self].timeout} |-> frame[self].client]
        /\ frame[self].client \in built[p]

\* C14: SetDefaultTLSConfig empties the cache and leaves transport as it
\* is, also when a custom transport is set; a goroutine that then asks
\* again for a timeout whose client was removed gets another instance, and
\* while the custom transport is still the pool's transport that instance
\* uses the same transport as the removed one.
C14_TLSConfigClearsCustom ==
    /\ [][\A self \in Procs :
            SetDefaultTLSConfig_L65(self)
            => /\ pools'[frame[self].p].clients = EmptyMap
               /\ pools'[frame[self].p].transport = pools[frame[self].p].transport]_vars
    /\ [](\A self \in Procs :
            LET p == frame[self].p IN
            (Returning(self) /\ SameAsBefore(self)
                /\ c1[self].client \in frame[self].old
                /\ pools[p].transport # Nil /\ ~MidSetTransport(p)
                /\ heap[c1[self].client].Transport = pools[p].transport
                /\ Uncleared(p, frame[self].client))
            => /\ frame[self].client # c1[self].client
               /\ heap[frame[self].client].Transport
                     = heap[c1[self].client].Transport)

\* SetTransport(T), c1 := GetClient(t), SetDefaultTLSConfig(cfg),
\* c2 := GetClient(t)
C14_Witness ==
    \E self \in Procs :
        LET p == frame[self].p IN
        /\ Returning(self) /\ SameAsBefore(self)
        /\ c1[self].client \in frame[self].old
        /\ pools[p].transport \in CustomTransports
        /\ pools[p].tlsConfig \in TLSConfigs
        /\ heap[c1[self].client].Transport = pools[p].transport
        /\ frame[self].client # c1[self].client
        /\ heap[frame[self].client].Transport = pools[p].transport
        /\ pools[p].clients = [t \in {frame[self].timeout} |-> frame[self].client]

Assigned(p) == {g \in Procs : frame[g].p = p /\ pc[g] \in {"L50", "L52"}}

\* C16: at most one goroutine is inside a write-locked part of a pool; from
\* its assignment to its return a SetTransport call sees its own argument
\* as the pool's transport, so the call that takes the lock last leaves
\* its transport; no other step changes transport; and once that call has
\* replaced the map, every client cached or being created uses its
\* transport.
C16_LastWriterWins ==
    /\ [](\A p \in DOMAIN pools : Cardinality(Writers(p)) <= 1)
    /\ [](\A p \in DOMAIN pools : \A g \in Assigned(p) :
            pools[p].transport = frame[g].transport)
    /\ [][\A p \in DOMAIN pools :
            pools'[p].transport # pools[p].transport
            => \E g \in Procs : frame[g].p = p /\ SetTransport_L46(g)]_vars
    /\ [](\A p \in DOMAIN pools :
            (pools[p].transport # Nil /\ ~MidSetTransport(p))
            => /\ \A t \in DOMAIN pools[p].clients :
                    heap[pools[p].clients[t]].Transport = pools[p].transport
               /\ \A g \in Procs :
                    (frame[g].p = p /\ Creating(g))
                    => frame[g].transport = pools[p].transport)

\* SetTransport(T1) and SetTransport(T2) run together: one has assigned
\* its transport and holds the lock, the other waits for it.
C16_Witness ==
    \E g, h \in Procs :
        /\ pc[g] = "L52" /\ pc[h] = "L44"
        /\ frame[g].p = frame[h].p
        /\ frame[g].transport \in CustomTransports
        /\ frame[h].transport \in CustomTransports
        /\ frame[g].transport # frame[h].transport
        /\ pools[frame[g].p].transport = frame[g].transport

\* C17: a goroutine at a line that reads transport, tlsConfig or clients
\* holds the lock (line 76 the read lock, lines 89 to 96 the write lock);
\* every step that changes them is taken by the one goroutine inside the
\* write-locked part, with no reader inside; and while a goroutine is
\* inside a write-locked part no other goroutine is inside a read-locked
\* or write-locked part of the same pool.
C17_AccessUnderLock ==
    /\ [](\A p \in DOMAIN pools :
            Writers(p) # {} => Cardinality(Writers(p)) = 1 /\ Readers(p) = {})
    /\ [](\A self \in Procs :
            LET mtx == pools[frame[self].p].mtx IN
            /\ pc[self] = "L76" => mtx.readers >= 1 /\ ~mtx.writer
            /\ pc[self] \in {"L46", "L50", "L61", "L65", "L89", "L90", "L96", "L115"}
               => mtx.writer /\ mtx.readers = 0)
    /\ [][\A p \in DOMAIN pools :
            Settings(pools'[p]) # Settings(pools[p])
            => /\ pools[p].mtx.writer /\ pools[p].mtx.readers = 0
               /\ \E g \in Writers(p) : pc'[g] # pc[g]]_vars

\* A goroutine is about to store its client while the other waits to read.
C17_Witness ==
    \E g, h \in Procs :
        /\ pc[g] = "L115" /\ pc[h] = "L74"
        /\ frame[g].p = frame[h].p
        /\ ~ENABLED GetClient_L74(h)

\* The transport chosen by a goroutine that creates a client is the one
\* the settings of pool p call for.
ChosenFor(p, transport) ==
    IF pools[p].transport # Nil
    THEN transport = pools[p].transport
    ELSE /\ heap[transport].type = "http.Transport"
         /\ heap[transport].TLSClientConfig = pools[p].tlsConfig

\* C18: at the instants at which a GetClient call holds the lock with its
\* client in hand (line 77 after the lookup, lines 115 and 118 after the
\* second check or the creation) the client is bound to the transport and
\* tlsConfig the pool has at that instant, and the transport read at line
\* 90 and the one built at line 96 are still what the pool's settings call
\* for when the client is made; the client is returned unchanged, whatever
\* Set* calls run after the lock is released.
C18_ConsistentSnapshot ==
    /\ [](\A self \in Procs :
            LET p == frame[self].p IN
            /\ pc[self] \in {"L77", "L115", "L118"} => BoundTo(p, frame[self].client)
            /\ pc[self] = "L96" => pools[p].transport = Nil
            /\ pc[self] = "L109" => ChosenFor(p, frame[self].transport))
    /\ [][\A self \in Procs :
            (pc[self] \in {"L77", "L118"} /\ pc'[self] # pc[self])
            => /\ pc'[self] \in {"L78", "L120"}
               /\ frame'[self].client = frame[self].client
               /\ heap'[frame[self].client] = heap[frame[self].client]]_vars

\* A call returns a client that a Set* call, run after the call started,
\* has removed from the cache, the settings having changed.
C18_Witness ==
    \E self \in Procs :
        LET p == frame[self].p IN
        /\ Returning(self)
        /\ frame[self].client \in cleared[p] \ frame[self].old
        /\ ~pools[p].mtx.writer
        /\ ~BoundTo(p, frame[self].client)

=============================================================================
